---- MODULE Spec2Model ----
(***************************************************************************)
(* Model of the hakoake-backend crawl pipeline:                            *)
(*   houses/crawlers/crawler.py  CrawlerRegistry, LiveHouseWebsiteCrawler  *)
(*   houses/functions.py         collect_schedules (the batch driver)      *)
(*   houses/models.py            LiveHouseWebsite, LiveHouse,              *)
(*                               PerformanceSchedule and its ticket info   *)
(*   performers/models.py        Performer                                 *)
(*                                                                         *)
(* Storage is the record db.  A crawl run executes inside                  *)
(* transaction.atomic(): snap is the storage at the entry of the atomic    *)
(* block, which is what storage returns to when the block is left by an    *)
(* exception.                                                              *)
(***************************************************************************)
EXTENDS Integers, Sequences, FiniteSets, TLC

\* ------------------------------------------------------------------ bounds
MaxDay == 2
MaxRuns == 2
MaxEntries == 1
MaxCandidates == 2
MaxLen == 3
MaxPlaylistEntries == 3
MaxPerformers == 6

\* ------------------------------------------------------- program constants
\* WebsiteProcessingState (houses/definitions.py)
NOT_STARTED == "not_started"
IN_PROGRESS == "in_progress"
COMPLETED == "completed"
FAILED == "failed"
WebsiteProcessingState == {NOT_STARTED, IN_PROGRESS, COMPLETED, FAILED}

\* CrawlerCollectionState (houses/definitions.py)
PENDING == "pending"
SUCCESS == "success"
ERROR == "error"
TIMEOUT == "timeout"
CrawlerCollectionState == {PENDING, SUCCESS, ERROR, TIMEOUT}

\* The websites the operator registered, and the keys of CrawlerRegistry._crawlers.
Websites == {1, 2}
RegisteredCrawlers == {"LiveHouseWebsiteCrawler"}
CrawlerClasses == {"", "LiveHouseWebsiteCrawler", "NonExistentCrawler"}

\* Exception classes that matter to the handlers: requests.Timeout, ValueError
\* (raised by the registry) and any other Exception.
ExcTimeout == "Timeout"
ExcValueError == "ValueError"
ExcOther == "Exception"

\* Values of the entries a schedule page yields.
Dates == {1}
StartTimes == {1}
OpenTimes == {1, 2}
PerformanceNames == {"", "t1"}

\* The context text of an entry: absent, without any ticket field, or with a
\* ticket price.
Contexts == {"none", "plain", "price"}

\* Raw performer candidates of an entry ("yen" stands for the currency sign):
\* a name, another notation of the same artist followed by a price, and a bare
\* price.
CandidateNames == {"n1", "n2 yen3000", "yen3000"}

\* The names under which the main page of a website reports its venue.
VenueNames == {"v1", "v2"}

\* What _search_for_performer_details meets: an online presence, none, or an
\* exception other than PerformerValidationError.
ProbeOutcomes == {"presence", "nothing", "error"}

\* What _search_social_media_links returns: the platforms of the links found.
SocialLinkResults == {{}, {"twitter"}}

VARIABLES
    crawler_class,  \* LiveHouseWebsite.crawler_class, per website
    db,             \* storage as the running process reads it
    snap,           \* storage at the entry of the open atomic block
    today,          \* the current date (timezone.localdate / timezone.now)
    runs,           \* number of crawl runs (calls of run) made so far
    run,            \* the crawl run in progress (locals of run and its callees)
    batch,          \* the batch driver collect_schedules (its locals)
    batch_outcome,  \* per website: how its latest run ended, when the batch driver
                    \* made that run and it ended today ("none" otherwise)
    calc,           \* a call of an extraction helper: its arguments and its result
    playlist,       \* the monthly playlists and the command at work on them
    procs           \* batch drivers at work at the same time

vars == <<crawler_class, db, snap, today, runs, run, batch, batch_outcome,
          calc, playlist, procs>>

\* -------------------------------------------------------------- helpers
Max(S) == CHOOSE x \in S : \A y \in S : y <= x

\* AutoField primary key of a new row of a table.
NextId(rows) == IF rows = {} THEN 1 ELSE Max({r.id : r \in rows}) + 1

Range(s) == {s[i] : i \in 1..Len(s)}

\* Every order in which a queryset without ordering can yield the set S.
Orders(S) == {s \in [1..Cardinality(S) -> S] : Range(s) = S}

\* What is known of the latest call of create_performance_schedule: its outcome,
\* the schedule it returned, the number of candidates, the valid performers it
\* collected and the values it was given.
\* Of the latest candidate: its cleaned name, the outcome of the probe made for
\* it ("not_run" when none was made) and whether it was kept as valid.
NoLast == [outcome |-> "none", id |-> 0, candidates |-> 0, valid |-> <<>>,
           open_time |-> 0, performance_name |-> "", context |-> "none",
           name |-> "", probe |-> "not_run", links |-> {}, kept |-> FALSE]

IdleRun == [pc |-> "idle", website |-> 0, caller |-> "none", prior |-> "none",
            msg |-> "", live_house |-> 0, data |-> <<>>,
            link |-> "", listed |-> <<>>, created_count |-> 0, dropped |-> 0,
            remaining |-> 0, has_next |-> FALSE, exc |-> "none", at |-> "none",
            valid |-> <<>>, cands |-> 0, last |-> NoLast, end_day |-> 0]

IdleBatch == [pc |-> "idle", today |-> 0, venue_id |-> 0, queue |-> <<>>,
              selected |-> {}, ran |-> <<>>, success_count |-> 0,
              failed_count |-> 0, skipped_count |-> 0]

\* ---------------------------------------------------------------- storage
LiveHousesOf(d, w) == {r \in d.live_houses : r.website = w}

\* LiveHouseWebsite.save() with the in-memory state s.
SaveWebsiteState(d, w, s) == [d EXCEPT !.website_state[w] = s]

\* SaveLiveHouseOutcome without `last_collected_datetime = timezone.now()`.
SaveLiveHouseOutcome_NoTimestamp(d, lh, state, collected) ==
    [d EXCEPT !.live_houses =
        {IF r.id = lh THEN [r EXCEPT !.last_collection_state = state] ELSE r : r \in @}]

\* LiveHouse.save() of the in-memory row lh with the collection outcome set.
SaveLiveHouseOutcome(d, lh, state, collected) ==
    [d EXCEPT !.live_houses =
        {IF r.id = lh
            THEN [r EXCEPT !.last_collection_state = state, !.last_collected = collected]
            ELSE r : r \in @}]

\* UpdateOrCreateLiveHouse as LiveHouse.objects.create(website=w, ...): a row
\* is made whatever is stored.
UpdateOrCreateLiveHouse_AlwaysCreate(d, w, data) ==
    LET new == [id |-> NextId(d.live_houses), website |-> w, name |-> data,
                last_collection_state |-> PENDING, last_collected |-> 0]
    IN [ok |-> TRUE, id |-> new.id, db |-> [d EXCEPT !.live_houses = @ \cup {new}]]

\* LiveHouse.objects.update_or_create(website=w, defaults=...): the row of the
\* website gets the extracted fields in place, or a row is created when there
\* is none.  Two or more rows raise MultipleObjectsReturned, and a name that
\* the row of another website has raises IntegrityError (name is unique).
UpdateOrCreateLiveHouse(d, w, data) ==
    LET rows == LiveHousesOf(d, w) IN
    IF Cardinality(rows) > 1 \/ \E r \in d.live_houses \ rows : r.name = data
        THEN [ok |-> FALSE, id |-> 0, db |-> d]
    ELSE IF rows = {}
        THEN LET new == [id |-> NextId(d.live_houses), website |-> w, name |-> data,
                         last_collection_state |-> PENDING, last_collected |-> 0]
             IN [ok |-> TRUE, id |-> new.id,
                 db |-> [d EXCEPT !.live_houses = @ \cup {new}]]
    ELSE LET r == CHOOSE r \in rows : TRUE
         IN [ok |-> TRUE, id |-> r.id,
             db |-> [d EXCEPT !.live_houses =
                        (@ \ rows) \cup {[r EXCEPT !.name = data]}]]

\* ---------------------------------------------------------- transactions
\* Leaving `with transaction.atomic():` by an exception rolls storage back to
\* the state at its entry; leaving it normally commits.
\* AtomicExitOnException that commits what the block wrote.
AtomicExitOnException_Commit(d, s) == d

AtomicExitOnException(d, s) == s
AtomicExitNormally(d, s) == d

\* The two except clauses of run (requests.Timeout, then Exception): the outcome
\* is saved on the LiveHouse only when the local live_house is bound, then the
\* website is saved as FAILED, then the exception is raised again.
ExceptClause(d, w, lh, exc) ==
    LET outcome == IF exc = ExcTimeout THEN TIMEOUT ELSE ERROR
        d1 == IF lh # 0
                 THEN [d EXCEPT !.live_houses =
                        {IF r.id = lh THEN [r EXCEPT !.last_collection_state = outcome]
                                      ELSE r : r \in @}]
                 ELSE d
    IN SaveWebsiteState(d1, w, FAILED)

\* run is left by an exception raised at step `at`.
Raise(exc, at) ==
    /\ db' = AtomicExitOnException(ExceptClause(db, run.website, run.live_house, exc), snap)
    /\ snap' = db'
    /\ run' = [run EXCEPT !.pc = "raised", !.exc = exc, !.at = at, !.remaining = 0,
                          !.has_next = FALSE, !.valid = <<>>, !.cands = 0,
                          !.listed = <<>>, !.created_count = 0, !.dropped = 0,
                          !.end_day = today]

\* ------------------------------------------------------------------- Init
\* No helper is being called, no playlist command and no second batch driver
\* is at work.
NoCalc == [op |-> "none"]

NoPlaylist == [pc |-> "none"]

NoProcs == <<>>

Init ==
    /\ crawler_class \in {c \in [Websites -> CrawlerClasses] :
                             c[1] = "LiveHouseWebsiteCrawler"}
    /\ db = [website_state |-> [w \in Websites |-> NOT_STARTED],
             live_houses |-> {}, schedules |-> {}, performers |-> {},
             tickets |-> {}, social_links |-> {}]
    /\ snap = db
    /\ today = 1
    /\ runs = 0
    /\ run = IdleRun
    /\ batch = IdleBatch
    /\ batch_outcome = [w \in Websites |-> "none"]
    /\ calc = NoCalc
    /\ playlist = NoPlaylist
    /\ procs = NoProcs

\* ------------------------------------------------- CrawlerRegistry.run_crawler
\* EnterRunCrawler with the website saved IN_PROGRESS before the lookup.
EnterRunCrawler_SaveFirst(w, caller) ==
    /\ db' = SaveWebsiteState(db, w, IN_PROGRESS)
    /\ IF crawler_class[w] \in RegisteredCrawlers
          THEN /\ runs < MaxRuns
               /\ runs' = runs + 1
               /\ snap' = db
               /\ run' = [IdleRun EXCEPT !.pc = "fetch_main", !.website = w,
                                         !.caller = caller,
                                         !.prior = db.website_state[w]]
          ELSE /\ UNCHANGED <<snap, runs>>
               /\ run' = [IdleRun EXCEPT !.pc = "raised", !.website = w,
                                         !.caller = caller,
                                         !.prior = db.website_state[w],
                                         !.exc = ExcValueError,
                                         !.msg = crawler_class[w],
                                         !.at = "registry", !.end_day = today]

\* get_crawler, then either construct the crawler and enter run (the atomic
\* block opens and the website is saved IN_PROGRESS), or raise ValueError with
\* a message that ends with the crawler_class of the website.
EnterRunCrawler(w, caller) ==
    /\ IF crawler_class[w] \in RegisteredCrawlers
          THEN /\ runs < MaxRuns
               /\ runs' = runs + 1
               /\ snap' = db
               /\ db' = SaveWebsiteState(db, w, IN_PROGRESS)
               /\ run' = [IdleRun EXCEPT !.pc = "fetch_main", !.website = w,
                                         !.caller = caller,
                                         !.prior = db.website_state[w]]
          ELSE /\ UNCHANGED <<db, snap, runs>>
               /\ run' = [IdleRun EXCEPT !.pc = "raised", !.website = w,
                                         !.caller = caller,
                                         !.prior = db.website_state[w],
                                         !.exc = ExcValueError,
                                         !.msg = crawler_class[w],
                                         !.at = "registry", !.end_day = today]

\* A caller other than the batch driver calls CrawlerRegistry.run_crawler.
RunCrawler(w) ==
    /\ run.pc = "idle"
    /\ batch.pc = "idle"
    /\ EnterRunCrawler(w, "direct")
    /\ batch_outcome' = [batch_outcome EXCEPT ![w] = "none"]
    /\ UNCHANGED <<calc, playlist, procs, crawler_class, today, batch>>

\* ------------------------------------------------ LiveHouseWebsiteCrawler.run
\* fetch_page(self.website.url)
FetchMainPage(result) ==
    /\ run.pc = "fetch_main"
    /\ IF result = "ok"
          THEN /\ run' = [run EXCEPT !.pc = "live_house"]
               /\ UNCHANGED <<db, snap>>
          ELSE Raise(result, "fetch_main")
    /\ UNCHANGED <<calc, playlist, procs, crawler_class, today, runs, batch, batch_outcome>>

\* The data that extract_live_house_info returns for website w when its page
\* reports the venue under name v: each website is the site of its own venue.
VenueData(w, v) == <<w, v>>

\* extract_live_house_info, which raises or returns the data of the venue, then
\* create_or_update_live_house
CreateOrUpdateLiveHouse(extracted, data) ==
    /\ run.pc = "live_house"
    /\ LET r == UpdateOrCreateLiveHouse(db, run.website, VenueData(run.website, data)) IN
       IF extracted /\ r.ok
          THEN /\ db' = r.db
               /\ run' = [run EXCEPT !.pc = "find_link", !.live_house = r.id,
                                      !.data = VenueData(run.website, data)]
               /\ UNCHANGED snap
          ELSE Raise(ExcOther, "live_house")
    /\ UNCHANGED <<calc, playlist, procs, crawler_class, today, runs, batch, batch_outcome>>

\* FindScheduleLink with `if schedule_url:` left out: the schedule page is
\* fetched whatever find_schedule_link returned.
FindScheduleLink_Unchecked(result) ==
    /\ run.pc = "find_link"
    /\ IF result \in {"found", "none"}
          THEN /\ run' = [run EXCEPT !.pc = "fetch_schedule", !.link = result]
               /\ UNCHANGED <<db, snap>>
          ELSE Raise(ExcOther, "find_link")
    /\ UNCHANGED <<calc, playlist, procs, crawler_class, today, runs, batch, batch_outcome>>

\* find_schedule_link: a URL, None, or an exception of the parser
FindScheduleLink(result) ==
    /\ run.pc = "find_link"
    /\ CASE result = "found" ->
              /\ run' = [run EXCEPT !.pc = "fetch_schedule", !.link = "found"]
              /\ UNCHANGED <<db, snap>>
         [] result = "none" ->
              /\ run' = [run EXCEPT !.pc = "finish", !.link = "none"]
              /\ UNCHANGED <<db, snap>>
         [] OTHER -> Raise(ExcOther, "find_link")
    /\ UNCHANGED <<calc, playlist, procs, crawler_class, today, runs, batch, batch_outcome>>

\* process_performance_schedules, first page: fetch_page(schedule_url),
\* extract_performance_schedules (n entries), find_next_month_link.
FetchSchedulePage(result, n, next, counted) ==
    /\ run.pc = "fetch_schedule"
    /\ IF result = "ok"
          THEN /\ run' = [run EXCEPT !.pc = IF next THEN "fetch_next" ELSE "entries",
                                     !.listed = IF counted THEN <<n>> ELSE @,
                                     !.remaining = n, !.has_next = next]
               /\ UNCHANGED <<db, snap>>
          ELSE Raise(result, "fetch_schedule")
    /\ UNCHANGED <<calc, playlist, procs, crawler_class, today, runs, batch, batch_outcome>>

\* FetchNextMonthPage with `schedules = next_month_schedules` in the place of
\* schedules.extend: the entries of the current month are lost.
FetchNextMonthPage_Replace(result, m, counted) ==
    /\ run.pc = "fetch_next"
    /\ IF result = "ok"
          THEN /\ run' = [run EXCEPT !.pc = "entries", !.listed = IF counted THEN Append(@, m) ELSE @,
                                     !.remaining = m]
               /\ UNCHANGED <<db, snap>>
          ELSE Raise(result, "fetch_next")
    /\ UNCHANGED <<calc, playlist, procs, crawler_class, today, runs, batch, batch_outcome>>

\* process_performance_schedules, next month's page: fetch_page(next_month_url),
\* extract_performance_schedules (m entries), schedules.extend.
FetchNextMonthPage(result, m, counted) ==
    /\ run.pc = "fetch_next"
    /\ IF result = "ok"
          THEN /\ run' = [run EXCEPT !.pc = "entries", !.listed = IF counted THEN Append(@, m) ELSE @,
                                     !.remaining = @ + m]
               /\ UNCHANGED <<db, snap>>
          ELSE Raise(result, "fetch_next")
    /\ UNCHANGED <<calc, playlist, procs, crawler_class, today, runs, batch, batch_outcome>>

\* ------------------------------------------------ create_performance_schedule
\* _clean_performer_name: the pricing token (currency sign and digits) is
\* removed and the rest is stripped.
CleanPerformerName(raw) ==
    CASE raw = "n2 yen3000" -> "n2"
      [] raw = "yen3000" -> ""
      [] OTHER -> raw

\* _is_valid_performer_name: at least two characters, one of them a letter.
IsValidPerformerName(name) == name \in {"n1", "n2", "n3", "n1(kana)"}

\* kakasi().convert(name), the hepburn items joined: "n1" and "n2" are two
\* notations with the same romanization, "n3" is another artist, and the
\* notation with a reading in parentheses is romanized as a whole.
Romaji(name) ==
    CASE name \in {"n1", "n2"} -> "r1"
      [] name = "n1(kana)" -> "r1(kana)"
      [] OTHER -> "r3"

\* _format_japanese_performer_name, the parenthetical notation: the main name
\* becomes the name of the Performer object (the reading goes to name_kana);
\* name_romaji stays the romanization of the whole candidate.
FormatJapanesePerformerName(name) == IF name = "n1(kana)" THEN "n1" ELSE name

\* _search_for_performer_details returns normally unless it raises
\* PerformerValidationError: an online presence passes, no presence raises, and
\* any other exception is logged by its `except Exception` clause and not raised.
ProbeAccepts(probe) == probe \in {"presence", "error"}

\* ValidPerformer without the lookup of the stored performer of that name.
ValidPerformer_NoReuse(d, raw, probe) ==
    LET name == CleanPerformerName(raw)
    IN IF name = "" \/ ~IsValidPerformerName(name) THEN <<>>
       ELSE IF ProbeAccepts(probe)
          THEN <<[pk |-> 0, name |-> FormatJapanesePerformerName(name),
                  name_romaji |-> Romaji(name)]>>
       ELSE <<>>

\* The loops over performer_names, one candidate: the candidate is dropped when
\* its cleaned name is empty or not valid, the stored Performer of that name is
\* reused, and a new Performer (pk 0: not saved) is kept when the probe passes.
ValidPerformer(d, raw, probe) ==
    LET name == CleanPerformerName(raw)
        existing == {p \in d.performers : p.name = name}
    IN IF name = "" \/ ~IsValidPerformerName(name) THEN <<>>
       ELSE IF existing # {}
          THEN LET p == CHOOSE p \in existing : TRUE
               IN <<[pk |-> p.id, name |-> p.name, name_romaji |-> p.name_romaji]>>
       ELSE IF ProbeAccepts(probe)
          THEN <<[pk |-> 0, name |-> FormatJapanesePerformerName(name),
                  name_romaji |-> Romaji(name)]>>
       ELSE <<>>

\* _search_for_performer_details is called for a candidate whose cleaned name is
\* valid and is not the name of a stored performer.
ProbeIsRun(d, raw) ==
    LET name == CleanPerformerName(raw)
    IN /\ name # "" /\ IsValidPerformerName(name)
       /\ ~\E p \in d.performers : p.name = name

\* _update_performer_social_links with the links saved whatever the performer.
UpdatePerformerSocialLinks_Unsaved(d, pk, links) ==
    [d EXCEPT !.social_links = @ \cup {[performer |-> pk, platform |-> l] : l \in links}]

\* _update_performer_social_links: the rows of the links are created for a saved
\* performer; for a performer that is not saved (pk 0) the ORM raises ValueError,
\* which the method logs, and nothing is written.
UpdatePerformerSocialLinks(d, pk, links) ==
    IF pk = 0 THEN d
    ELSE [d EXCEPT !.social_links =
             @ \cup {[performer |-> pk, platform |-> l] : l \in links}]

\* NoValidPerformers with the check left out.
NoValidPerformers_Unchecked(valid) == FALSE

\* `if not valid_performers: raise ValueError`, before the schedule is written.
NoValidPerformers(valid) == valid = <<>>

SchedulesAt(d, lh, date, start) ==
    {r \in d.schedules : r.live_house = lh /\ r.performance_date = date
                                          /\ r.start_time = start}

\* GetOrCreateSchedule as a plain create: a row is added whatever is stored.
GetOrCreateSchedule_AlwaysCreate(d, lh, date, start, open, title) ==
    LET new == [id |-> NextId(d.schedules), live_house |-> lh,
                performance_date |-> date, start_time |-> start,
                open_time |-> open, performance_name |-> title, performers |-> {}]
    IN [ok |-> TRUE, created |-> TRUE, id |-> new.id,
        db |-> [d EXCEPT !.schedules = @ \cup {new}]]

\* GetOrCreateSchedule as update_or_create: the defaults are written to the
\* stored row.
GetOrCreateSchedule_Update(d, lh, date, start, open, title) ==
    LET rows == SchedulesAt(d, lh, date, start) IN
    IF rows = {}
        THEN LET new == [id |-> NextId(d.schedules), live_house |-> lh,
                         performance_date |-> date, start_time |-> start,
                         open_time |-> open, performance_name |-> title,
                         performers |-> {}]
             IN [ok |-> TRUE, created |-> TRUE, id |-> new.id,
                 db |-> [d EXCEPT !.schedules = @ \cup {new}]]
    ELSE IF Cardinality(rows) = 1
        THEN LET old == CHOOSE r \in rows : TRUE IN
             [ok |-> TRUE, created |-> FALSE, id |-> old.id,
              db |-> [d EXCEPT !.schedules = (@ \ {old}) \cup
                         {[old EXCEPT !.open_time = open,
                                      !.performance_name =
                                          IF title # "" THEN title ELSE @]}]]
    ELSE [ok |-> FALSE, created |-> FALSE, id |-> 0, db |-> d]

\* PerformanceSchedule.objects.get_or_create(live_house, performance_date,
\* start_time, defaults): the stored row is returned as it is, or a row is
\* created from the defaults (performance_name only when given).  Two or more
\* stored rows raise MultipleObjectsReturned.
GetOrCreateSchedule(d, lh, date, start, open, title) ==
    LET rows == SchedulesAt(d, lh, date, start) IN
    IF rows = {}
        THEN LET new == [id |-> NextId(d.schedules), live_house |-> lh,
                         performance_date |-> date, start_time |-> start,
                         open_time |-> open, performance_name |-> title,
                         performers |-> {}]
             IN [ok |-> TRUE, created |-> TRUE, id |-> new.id,
                 db |-> [d EXCEPT !.schedules = @ \cup {new}]]
    ELSE IF Cardinality(rows) = 1
        THEN [ok |-> TRUE, created |-> FALSE, id |-> (CHOOSE r \in rows : TRUE).id,
              db |-> d]
    ELSE [ok |-> FALSE, created |-> FALSE, id |-> 0, db |-> d]

\* GetOrCreatePerformer with the lookup made by display name.
GetOrCreatePerformer_ByName(d, p) ==
    IF p.pk # 0 THEN [ok |-> TRUE, id |-> p.pk, db |-> d]
    ELSE LET rows == {q \in d.performers : q.name = p.name} IN
         IF rows # {}
            THEN [ok |-> TRUE, id |-> (CHOOSE q \in rows : TRUE).id, db |-> d]
            ELSE LET new == [id |-> NextId(d.performers), name |-> p.name,
                             name_romaji |-> p.name_romaji]
                 IN [ok |-> TRUE, id |-> new.id,
                     db |-> [d EXCEPT !.performers = @ \cup {new}]]

\* GetOrCreatePerformer that uses the stored performer of the same name when
\* the insert meets the unique constraint on name.
GetOrCreatePerformer_FallBackToName(d, p) ==
    IF p.pk # 0 THEN [ok |-> TRUE, id |-> p.pk, db |-> d]
    ELSE LET rows == {q \in d.performers : q.name_romaji = p.name_romaji}
             named == {q \in d.performers : q.name = p.name} IN
         IF rows # {}
            THEN [ok |-> TRUE, id |-> (CHOOSE q \in rows : TRUE).id, db |-> d]
         ELSE IF named # {}
            THEN [ok |-> TRUE, id |-> (CHOOSE q \in named : TRUE).id, db |-> d]
            ELSE LET new == [id |-> NextId(d.performers), name |-> p.name,
                             name_romaji |-> p.name_romaji]
                 IN [ok |-> TRUE, id |-> new.id,
                     db |-> [d EXCEPT !.performers = @ \cup {new}]]

\* Performer.objects.get_or_create(name_romaji=..., defaults={name, ...}) for a
\* performer that is not saved yet; the stored performer is used as it is.
\* When no performer has the romanized name, the insert is made inside a
\* savepoint; a stored performer of the same name (Performer.name is unique)
\* makes it raise IntegrityError, the savepoint is rolled back and the error
\* is raised to the caller (ok FALSE).
GetOrCreatePerformer(d, p) ==
    IF p.pk # 0 THEN [ok |-> TRUE, id |-> p.pk, db |-> d]
    ELSE LET rows == {q \in d.performers : q.name_romaji = p.name_romaji} IN
         IF rows # {}
            THEN [ok |-> TRUE, id |-> (CHOOSE q \in rows : TRUE).id, db |-> d]
         ELSE IF \E q \in d.performers : q.name = p.name
            THEN [ok |-> FALSE, id |-> 0, db |-> d]
            ELSE LET new == [id |-> NextId(d.performers), name |-> p.name,
                             name_romaji |-> p.name_romaji]
                 IN [ok |-> TRUE, id |-> new.id,
                     db |-> [d EXCEPT !.performers = @ \cup {new}]]

\* AddPerformer as performers.set([performer]): the performer replaces the set.
AddPerformer_Replace(d, sid, pid) ==
    [d EXCEPT !.schedules =
        {IF r.id = sid THEN [r EXCEPT !.performers = {pid}] ELSE r : r \in @}]

\* performance.performers.add(performer)
AddPerformer(d, sid, pid) ==
    [d EXCEPT !.schedules =
        {IF r.id = sid THEN [r EXCEPT !.performers = @ \cup {pid}] ELSE r : r \in @}]

\* The loop `for performer in valid_performers`, from position i; it is left
\* by the exception of get_or_create, with the performers before i added.
RECURSIVE SavePerformers(_, _, _, _)
SavePerformers(d, sid, valid, i) ==
    IF i > Len(valid) THEN [ok |-> TRUE, db |-> d]
    ELSE LET g == GetOrCreatePerformer(d, valid[i])
         IN IF ~g.ok THEN [ok |-> FALSE, db |-> d]
            ELSE SavePerformers(AddPerformer(g.db, sid, g.id), sid, valid, i + 1)

\* ExtractTicketInfo without the range check on the price: any context text
\* yields a price.
ExtractTicketInfo_AnyNumber(context) ==
    IF context \in {"plain", "price"} THEN {"ticket_price"} ELSE {}

\* _extract_ticket_info: the fields found in the context; no field, no object.
ExtractTicketInfo(context) == IF context = "price" THEN {"ticket_price"} ELSE {}

\* _create_or_update_ticket_info: nothing is written without a field, else
\* PerformanceScheduleTicketPurchaseInfo.objects.update_or_create(performance,
\* defaults) sets the fields on the row of the schedule.
CreateOrUpdateTicketInfo(d, sid, fields) ==
    IF fields = {} THEN d
    ELSE LET rows == {t \in d.tickets : t.performance = sid} IN
         [d EXCEPT !.tickets = (@ \ rows) \cup
            {[performance |-> sid,
              fields |-> fields \cup UNION {t.fields : t \in rows}]}]

\* create_performance_schedule from `if not valid_performers` on: the outcome
\* of the call and the storage after it.
CreatePerformanceSchedule(d, lh, valid, date, start, open, title, context) ==
    IF NoValidPerformers(valid)
        THEN [outcome |-> "no_performers", id |-> 0, db |-> d]
    ELSE LET g == GetOrCreateSchedule(d, lh, date, start, open, title) IN
         IF ~g.ok THEN [outcome |-> "error", id |-> 0, db |-> d]
         ELSE LET s == SavePerformers(g.db, g.id, valid, 1) IN
              IF ~s.ok THEN [outcome |-> "error", id |-> g.id, db |-> s.db]
              ELSE [outcome |-> IF g.created THEN "created" ELSE "existing",
                    id |-> g.id,
                    db |-> LET d1 == s.db
                               ticket_info == ExtractTicketInfo(context)
                           IN IF context = "none" \/ ticket_info = {} THEN d1
                              ELSE CreateOrUpdateTicketInfo(d1, g.id, ticket_info)]

\* LoopCatches with `except ValueError`: only the refusal for want of valid
\* performers is caught.
LoopCatches_ValueErrorOnly(outcome) == outcome # "error"

\* The loop's `except Exception` around create_performance_schedule: whatever
\* the call raises is logged and the loop goes on.
LoopCatches(outcome) == TRUE

\* process_performance_schedules, the loop over the entries: the performers of
\* the entry at hand are cleaned and validated one candidate at a time (each
\* new candidate costs the search requests of the probe, which hands the links
\* it finds to _update_performer_social_links) ...
ValidateCandidate(raw, probe, links) ==
    /\ run.pc = "entries"
    /\ run.remaining > 0
    /\ run.cands < MaxCandidates
    /\ LET v == ValidPerformer(db, raw, probe)
           probed == ProbeIsRun(db, raw)
       IN /\ run' = [run EXCEPT !.valid = @ \o v, !.cands = @ + 1,
                                !.last = [NoLast EXCEPT
                                    !.outcome = "validated",
                                    !.name = CleanPerformerName(raw),
                                    !.probe = IF probed THEN probe ELSE "not_run",
                                    !.links = IF probed THEN links ELSE {},
                                    !.kept = v # <<>>]]
          /\ db' = IF probed /\ links # {}
                      THEN UpdatePerformerSocialLinks(db, 0, links)
                      ELSE db
    /\ UNCHANGED <<calc, playlist, procs, crawler_class, snap, today, runs, batch, batch_outcome>>

\* ... and the schedule is written; an exception of create_performance_schedule
\* is logged by the loop, which goes on with the next entry.
PersistSchedule(date, start, open, title, context, counted) ==
    /\ run.pc = "entries"
    /\ run.remaining > 0
    /\ LET c == CreatePerformanceSchedule(db, run.live_house, run.valid,
                                          date, start, open, title, context)
       IN IF ~LoopCatches(c.outcome) THEN Raise(ExcOther, "entries") ELSE
          /\ db' = c.db
          /\ snap' = snap
          /\ run' = [run EXCEPT !.remaining = @ - 1, !.valid = <<>>, !.cands = 0,
                                !.created_count =
                                    IF counted /\ c.outcome \in {"created", "existing"}
                                       THEN @ + 1 ELSE @,
                                !.dropped =
                                    IF counted /\ c.outcome \in {"no_performers", "error"}
                                       THEN @ + 1 ELSE @,
                                !.last = [outcome |-> c.outcome, id |-> c.id,
                                          candidates |-> run.cands,
                                          valid |-> run.valid,
                                          open_time |-> open,
                                          performance_name |-> title,
                                          context |-> context,
                                          name |-> IF run.cands = 0 THEN ""
                                                   ELSE run.last.name,
                                          probe |-> IF run.cands = 0 THEN "not_run"
                                                    ELSE run.last.probe,
                                          links |-> IF run.cands = 0 THEN {}
                                                    ELSE run.last.links,
                                          kept |-> run.cands # 0 /\ run.last.kept]]
    /\ UNCHANGED <<calc, playlist, procs, crawler_class, today, runs, batch, batch_outcome>>

\* The end of the try block: the outcome is saved on the LiveHouse, the website
\* is saved COMPLETED and the atomic block is left normally.
FinishRun ==
    /\ \/ run.pc = "finish"
       \/ run.pc = "entries" /\ run.remaining = 0
    /\ LET d1 == SaveLiveHouseOutcome(db, run.live_house, SUCCESS, today)
           d2 == SaveWebsiteState(d1, run.website, COMPLETED)
       IN db' = AtomicExitNormally(d2, snap)
    /\ snap' = db'
    /\ run' = [run EXCEPT !.pc = "returned", !.end_day = today, !.last = NoLast,
                          !.listed = <<>>, !.created_count = 0, !.dropped = 0]
    /\ UNCHANGED <<calc, playlist, procs, crawler_class, today, runs, batch, batch_outcome>>

\* run_crawler has returned to, or raised into, a caller other than the batch.
ReturnToCaller ==
    /\ run.pc \in {"returned", "raised"}
    /\ run.caller = "direct"
    /\ run' = IdleRun
    /\ UNCHANGED <<calc, playlist, procs, crawler_class, db, snap, today, runs, batch, batch_outcome>>

\* ------------------------------------------------ functions.collect_schedules
\* The queryset of websites to crawl: crawler_class neither "" nor null, the
\* venue filter when venue_id is given (0 models None)...
WebsitesWithCrawler(d, venue_id) ==
    {w \in Websites :
        /\ crawler_class[w] # ""
        /\ venue_id # 0 => \E lh \in LiveHousesOf(d, w) : lh.id = venue_id}

\* WebsitesToExclude without the comparison of the collection date with today.
WebsitesToExclude_AnyDay(d, websites, day) ==
    {w \in websites :
        \E lh \in LiveHousesOf(d, w) : lh.last_collection_state = SUCCESS}

\* ... and the loop that collects websites_to_exclude: any LiveHouse of the
\* website collected today with outcome SUCCESS.
WebsitesToExclude(d, websites, day) ==
    {w \in websites :
        \E lh \in LiveHousesOf(d, w) :
            lh.last_collected = day /\ lh.last_collection_state = SUCCESS}

\* BatchCatches as `except requests.Timeout`.
BatchCatches_TimeoutOnly(exc) == exc = ExcTimeout

\* `except Exception` of the loop over the websites.
BatchCatches(exc) == exc \in {ExcTimeout, ExcValueError, ExcOther}

\* collect_schedules(venue_id) up to the loop over the websites.
BatchStart(venue_id, order) ==
    /\ batch.pc = "idle"
    /\ run.pc = "idle"
    /\ LET websites == WebsitesWithCrawler(db, venue_id)
           excluded == WebsitesToExclude(db, websites, today)
       IN /\ order \in Orders(websites \ excluded)
          /\ runs + Cardinality({w \in Range(order) :
                                    crawler_class[w] \in RegisteredCrawlers}) <= MaxRuns
          /\ batch' = [IdleBatch EXCEPT !.pc = "loop", !.today = today,
                                        !.venue_id = venue_id, !.queue = order,
                                        !.selected = Range(order),
                                        !.skipped_count = Cardinality(excluded)]
    /\ UNCHANGED <<calc, playlist, procs, crawler_class, db, snap, today, runs, run, batch_outcome>>

\* One iteration of the loop, up to the call of CrawlerRegistry.run_crawler.
BatchRunCrawler ==
    /\ batch.pc = "loop"
    /\ run.pc = "idle"
    /\ batch.queue # <<>>
    /\ EnterRunCrawler(Head(batch.queue), "batch")
    /\ batch' = [batch EXCEPT !.queue = Tail(@), !.ran = Append(@, Head(batch.queue))]
    /\ UNCHANGED <<calc, playlist, procs, crawler_class, today, batch_outcome>>

\* run_crawler returned: success_count += 1.
BatchAfterReturn ==
    /\ batch.pc = "loop"
    /\ run.pc = "returned"
    /\ batch' = [batch EXCEPT !.success_count = @ + 1]
    /\ batch_outcome' = [batch_outcome EXCEPT ![run.website] =
                            IF run.end_day = today THEN "success" ELSE "none"]
    /\ run' = IdleRun
    /\ UNCHANGED <<calc, playlist, procs, crawler_class, db, snap, today, runs>>

\* run_crawler raised: the except clause counts the failure and saves the
\* website as FAILED (outside any transaction); an exception the clause does
\* not catch leaves collect_schedules.
BatchAfterRaise ==
    /\ batch.pc = "loop"
    /\ run.pc = "raised"
    /\ IF BatchCatches(run.exc)
          THEN /\ batch' = [batch EXCEPT !.failed_count = @ + 1]
               /\ db' = SaveWebsiteState(db, run.website, FAILED)
               /\ snap' = db'
          ELSE /\ batch' = [batch EXCEPT !.pc = "aborted"]
               /\ UNCHANGED <<db, snap>>
    /\ batch_outcome' = [batch_outcome EXCEPT ![run.website] =
                            IF run.end_day = today THEN "failed" ELSE "none"]
    /\ run' = IdleRun
    /\ UNCHANGED <<calc, playlist, procs, crawler_class, today, runs>>

\* The loop is over: the counts are logged (and the data dumped).
BatchFinish ==
    /\ batch.pc = "loop"
    /\ run.pc = "idle"
    /\ batch.queue = <<>>
    /\ batch' = [batch EXCEPT !.pc = "done"]
    /\ UNCHANGED <<calc, playlist, procs, crawler_class, db, snap, today, runs, run, batch_outcome>>

\* collect_schedules has returned to the management command.
BatchReturn ==
    /\ batch.pc = "done"
    /\ batch' = IdleBatch
    /\ UNCHANGED <<calc, playlist, procs, crawler_class, db, snap, today, runs, run, batch_outcome>>

\* ------------------------------------------------------------------ clock
NextDay ==
    /\ today < MaxDay
    /\ run.pc = "idle"
    /\ today' = today + 1
    /\ batch_outcome' = [w \in Websites |-> "none"]
    /\ UNCHANGED <<calc, playlist, procs, crawler_class, db, snap, runs, run, batch>>

\* The steps of a crawl run, with the venue data of its main page and the
\* entries of its pages drawn from the given venue names, candidates, start
\* times, open times, event titles and contexts.  The figures that
\* process_performance_schedules only logs (the entries extracted per page, the
\* schedules it counts as created and the entries it drops) are followed when
\* `counted` holds.
RunStep(counted, venues, names, starts, opens, titles, contexts) ==
    \/ \E result \in {"ok", ExcTimeout, ExcOther} : FetchMainPage(result)
    \/ \E extracted \in BOOLEAN, data \in venues : CreateOrUpdateLiveHouse(extracted, data)
    \/ \E result \in {"found", "none", "raise"} : FindScheduleLink(result)
    \/ \E result \in {"ok", ExcTimeout, ExcOther}, n \in 0..MaxEntries, next \in BOOLEAN :
          FetchSchedulePage(result, n, next, counted)
    \/ \E result \in {"ok", ExcTimeout, ExcOther}, m \in 0..MaxEntries :
          FetchNextMonthPage(result, m, counted)
    \/ \E raw \in names, probe \in ProbeOutcomes, links \in SocialLinkResults :
          ValidateCandidate(raw, probe, links)
    \/ \E date \in Dates, start \in starts, open \in opens, title \in titles,
          context \in contexts :
          PersistSchedule(date, start, open, title, context, counted)
    \/ FinishRun

\* Crawl runs made one after the other through CrawlerRegistry.run_crawler; the
\* entries of their pages list any candidates, have one open time and carry
\* neither title nor context text.
Next ==
    \/ \E w \in Websites : RunCrawler(w)
    \/ RunStep(FALSE, {"v1"}, CandidateNames, StartTimes, {1}, {""}, {"none"})
    \/ ReturnToCaller

Spec == Init /\ [][Next]_vars

\* The same runs over pages whose entries list one artist and have any open
\* time and title.
NextSchedule ==
    \/ \E w \in Websites : RunCrawler(w)
    \/ RunStep(FALSE, {"v1"}, {"n1", "yen3000"}, StartTimes, OpenTimes, PerformanceNames, {"none"})
    \/ ReturnToCaller

SpecSchedule == Init /\ [][NextSchedule]_vars

\* The same runs over pages whose entries list two artists and a bare price.
NextLineup ==
    \/ \E w \in Websites : RunCrawler(w)
    \/ RunStep(FALSE, {"v1"}, {"n1", "n3", "yen3000"}, StartTimes, {1}, {""}, {"none"})
    \/ ReturnToCaller

SpecLineup == Init /\ [][NextLineup]_vars

\* The same runs over main pages that report the venue under either name.
NextVenue ==
    \/ \E w \in Websites : RunCrawler(w)
    \/ RunStep(FALSE, VenueNames, {"n1"}, StartTimes, {1}, {""}, {"none"})
    \/ ReturnToCaller

SpecVenue == Init /\ [][NextVenue]_vars

\* The same runs over pages whose entries have either start time, with the
\* logged figures followed.
NextPages ==
    \/ \E w \in Websites : RunCrawler(w)
    \/ RunStep(TRUE, {"v1"}, {"n1", "yen3000"}, {1, 2}, {1}, {""}, {"none"})
    \/ ReturnToCaller

SpecPages == Init /\ [][NextPages]_vars

\* The same runs over pages whose entries list one artist and carry any context.
NextTickets ==
    \/ \E w \in Websites : RunCrawler(w)
    \/ RunStep(FALSE, {"v1"}, {"n1", "yen3000"}, StartTimes, {1}, {""}, Contexts)
    \/ ReturnToCaller

SpecTickets == Init /\ [][NextTickets]_vars

\* The same runs over pages that list an artist also in the notation with a
\* reading in parentheses, with the logged figures followed.
NextEntries ==
    \/ \E w \in Websites : RunCrawler(w)
    \/ RunStep(TRUE, {"v1"}, {"n1", "n1(kana)"}, StartTimes, {1}, {""}, {"none"})
    \/ ReturnToCaller

SpecEntries == Init /\ [][NextEntries]_vars

\* Batch runs of collect_schedules made one after the other, across days; the
\* pages of these runs list one artist, with or without pricing noise.
NextBatch ==
    \/ \E venue_id \in {0} \cup {lh.id : lh \in db.live_houses},
          order \in UNION {Orders(S) : S \in SUBSET Websites} :
          BatchStart(venue_id, order)
    \/ BatchRunCrawler
    \/ RunStep(FALSE, {"v1"}, {"n1", "yen3000"}, StartTimes, {1}, {""}, {"none"})
    \/ BatchAfterReturn
    \/ BatchAfterRaise
    \/ BatchFinish
    \/ BatchReturn
    \/ NextDay

SpecBatch == Init /\ [][NextBatch]_vars

\* ================================================================ properties
\* The step of the batch driver that handles a raised crawl run.
BatchHandlesRaise == batch.pc = "loop" /\ run.pc = "raised" /\ run'.pc = "idle"

\* The collection outcome the except clauses of run assign for an exception.
OutcomeFor(exc) == IF exc = ExcTimeout THEN TIMEOUT ELSE ERROR

\* C1: whenever run raises after it has saved the website as IN_PROGRESS, the
\* stored state of the website afterwards is FAILED.
C1_RaisedRunStoresFailed ==
    (run.pc = "raised" /\ run.at # "registry")
        => db.website_state[run.website] = FAILED

\* C2: in a batch run, when the fetch of a website's main page times out, the
\* website ends FAILED, its venue ends with outcome TIMEOUT and failed_count
\* is one higher.
C2_MainPageTimeoutRecorded ==
    [][(BatchHandlesRaise /\ run.exc = ExcTimeout /\ run.at = "fetch_main")
          => /\ db'.website_state[run.website] = FAILED
             /\ LiveHousesOf(db', run.website) # {}
             /\ \A lh \in LiveHousesOf(db', run.website) :
                    lh.last_collection_state = TIMEOUT
             /\ batch'.failed_count = batch.failed_count + 1]_vars

\* C3: when a step after the upsert of the venue raises, after the run the
\* venue has outcome TIMEOUT (timeout) or ERROR (any other error) and the
\* website is FAILED.
C3_FailureOutcomeRecorded ==
    [][(BatchHandlesRaise /\ run.live_house # 0)
          => /\ db'.website_state[run.website] = FAILED
             /\ \E lh \in LiveHousesOf(db', run.website) :
                    lh.last_collection_state = OutcomeFor(run.exc)]_vars

\* C4: after a crawl run that returned, whatever the state of the website
\* before it, the website is COMPLETED and its venue has outcome SUCCESS and
\* the collection time this run set.
C4_SuccessfulRunRecorded ==
    run.pc = "returned"
        => /\ db.website_state[run.website] = COMPLETED
           /\ \E lh \in LiveHousesOf(db, run.website) :
                 /\ lh.id = run.live_house
                 /\ lh.last_collection_state = SUCCESS
                 /\ lh.last_collected = run.end_day

\* A run that started from a website stored as FAILED has returned.
C4_Witness == run.pc = "returned" /\ run.prior = FAILED

\* C5: no website is left IN_PROGRESS once its run is over, and every run that
\* was started ends with the website COMPLETED or FAILED, returned or raised.
C5_RunEndsCompletedOrFailed ==
    /\ run.pc \in {"idle", "returned", "raised"}
          => \A w \in Websites : db.website_state[w] # IN_PROGRESS
    /\ (run.pc \in {"returned", "raised"} /\ run.at # "registry")
          => db.website_state[run.website] \in {COMPLETED, FAILED}

\* C6: an exception of the crawl run of one website, a registry miss
\* included, never leaves the batch driver: the runs of the websites after it
\* are made, and every selected website is counted as success or failure.
C6_BatchIsolation ==
    /\ batch.pc # "aborted"
    /\ Range(batch.ran) \subseteq batch.selected
    /\ batch.pc = "done"
          => /\ Range(batch.ran) = batch.selected
             /\ batch.success_count + batch.failed_count
                    = Cardinality(batch.selected)

\* The run of the second website of a batch has returned after the run of the
\* first was counted as a failure.
C6_Witness ==
    /\ batch.pc = "loop"
    /\ batch.failed_count = 1
    /\ Len(batch.ran) = 2
    /\ run.pc = "returned"

\* The state right after the selection of collect_schedules.
Selected == batch.pc = "loop" /\ batch.ran = <<>> /\ run.pc = "idle"

HasCrawlerKey(w) == crawler_class[w] # ""

SucceededOn(w, day) ==
    \E lh \in LiveHousesOf(db, w) :
        lh.last_collection_state = SUCCESS /\ lh.last_collected = day

PassesVenueFilter(w) ==
    batch.venue_id # 0 => \E lh \in LiveHousesOf(db, w) : lh.id = batch.venue_id

\* C7 as stated: the batch driver runs the crawler of a website iff the
\* website has a non-empty key and no venue of it has outcome SUCCESS with
\* today's collection date.
C7_SelectionAsStated ==
    Selected
        => batch.selected = {w \in Websites :
                                HasCrawlerKey(w) /\ ~SucceededOn(w, batch.today)}

\* C7: the batch driver runs the crawler of a website iff the website has a
\* non-empty key, no venue of it has outcome SUCCESS with today's collection
\* date and, when a venue_id is given, the website has the venue of that id;
\* so a later batch of the same day skips every website whose run succeeded
\* in an earlier one and crawls again every website whose run failed (and
\* that the venue filter admits).
C7_Selection ==
    /\ Selected
          => /\ batch.selected = {w \in Websites :
                                     /\ HasCrawlerKey(w)
                                     /\ ~SucceededOn(w, batch.today)
                                     /\ PassesVenueFilter(w)}
             /\ \A w \in Websites :
                   /\ batch_outcome[w] = "success" => w \notin batch.selected
                   /\ (batch_outcome[w] = "failed" /\ PassesVenueFilter(w))
                         => w \in batch.selected
    /\ Range(batch.ran) \subseteq batch.selected
    /\ batch.pc = "done" => Range(batch.ran) = batch.selected

\* A later batch of the day has selected the website that failed and left out
\* the website that succeeded.
C7_Witness ==
    /\ Selected
    /\ \E w1, w2 \in Websites :
          /\ batch_outcome[w1] = "success" /\ w1 \notin batch.selected
          /\ batch_outcome[w2] = "failed" /\ w2 \in batch.selected

\* C8: no two stored schedules have the same venue, date and start time.
C8_ScheduleUnique ==
    \A r1, r2 \in db.schedules :
        (/\ r1.live_house = r2.live_house
         /\ r1.performance_date = r2.performance_date
         /\ r1.start_time = r2.start_time) => r1 = r2

\* A second run has met the schedule the first run stored.
C8_Witness == runs = 2 /\ run.last.outcome = "existing"

\* create_performance_schedule has just returned the schedule that was
\* already stored for its venue, date and start time.
MetExisting ==
    run.pc = "entries" /\ run'.pc = "entries" /\ run'.last.outcome = "existing"

\* C9 as stated: after a call for a venue, date and start time that already
\* have a stored schedule, the open time and the title of the stored row are
\* those of the call.
C9_SecondCallUpdates ==
    (run.last.outcome = "existing" /\ run.last.performance_name # "")
        => \A r \in db.schedules :
              r.id = run.last.id
                 => /\ r.open_time = run.last.open_time
                    /\ r.performance_name = run.last.performance_name

\* C9: a call for a venue, date and start time that already have a stored
\* schedule leaves the open time and the title of the stored row as they
\* were, adds no row, and only adds its performers to the row.
C9_ExistingRowKept ==
    [][MetExisting
          => /\ Cardinality(db'.schedules) = Cardinality(db.schedules)
             /\ \A r \in db.schedules :
                   r.id = run'.last.id
                      => \E r2 \in db'.schedules :
                            /\ r2 = [r EXCEPT !.performers = r2.performers]
                            /\ r.performers \subseteq r2.performers]_vars

\* The call met a stored schedule whose open time and title both differ from
\* the ones the call was given.
C9_Witness ==
    /\ run.last.outcome = "existing"
    /\ \E r \in db.schedules :
          /\ r.id = run.last.id
          /\ r.open_time # run.last.open_time
          /\ run.last.performance_name # ""
          /\ r.performance_name # run.last.performance_name

\* C10: an entry whose candidates are all filtered out or fail validation
\* writes nothing: the validation of a candidate leaves storage as it is, and
\* create_performance_schedule raises before any write.
C10_NoWriteWithoutPerformers ==
    [][(run.pc = "entries" /\ run'.pc = "entries")
          => /\ run'.remaining = run.remaining => db' = db
             /\ (run'.remaining < run.remaining /\ run.valid = <<>>)
                   => /\ db' = db
                      /\ run'.last.outcome = "no_performers"]_vars

\* An entry of two candidates, none of them valid, has been refused.
C10_Witness ==
    run.last.outcome = "no_performers" /\ run.last.candidates = 2

\* The step in which create_performance_schedule is called for an entry.
PersistStep ==
    run.pc = "entries" /\ run'.pc = "entries" /\ run'.remaining < run.remaining

\* A valid performer that is new (not saved) and has the romanized name of the
\* stored performer q, whose display name is another one.
RomajiCollision(c, q) ==
    c.pk = 0 /\ q.name_romaji = c.name_romaji /\ q.name # c.name

\* C11: no two stored performers have the same romanized name; a new
\* candidate with the romanized name of a stored performer of another display
\* name creates no row, leaves the stored row as it is, and the schedule is
\* linked to the stored row.
C11_PerformerDedupByRomaji ==
    [][/\ \A p, q \in db'.performers : p.name_romaji = q.name_romaji => p = q
       /\ PersistStep
             => \A i \in 1..Len(run.valid) : \A q \in db.performers :
                   RomajiCollision(run.valid[i], q)
                      => /\ q \in db'.performers
                         /\ ~\E p \in db'.performers : p.name = run.valid[i].name
                         /\ \E s \in db'.schedules :
                               s.id = run'.last.id /\ q.id \in s.performers]_vars

\* A schedule was written for an entry with a new candidate whose romanized
\* name is that of a stored performer of another display name.
C11_Witness ==
    /\ run.last.outcome \in {"created", "existing"}
    /\ \E i \in 1..Len(run.last.valid) : \E q \in db.performers :
          /\ RomajiCollision(run.last.valid[i], q)
          /\ Cardinality(db.performers) = 1
          /\ \E s \in db.schedules : s.id = run.last.id /\ q.id \in s.performers

\* C12 as stated: a new candidate on which the probe was run is kept for the
\* schedule exactly when the probe found an online presence; when the probe
\* found nothing or raised an error of its own the candidate is not kept.
C12_ValidationGate ==
    (run.last.outcome = "validated" /\ run.last.probe # "not_run")
        => (run.last.kept <=> run.last.probe = "presence")

\* One candidate of the entry at hand has just gone through the gate of
\* create_performance_schedule.
ValidateStep ==
    run.pc = "entries" /\ run'.pc = "entries" /\ run'.cands = run.cands + 1

\* The candidate that has just gone through the gate was rejected: its cleaned
\* name is empty or not valid, or the probe raised PerformerValidationError.
Rejected(last) ==
    last.outcome = "validated" /\ (last.name = "" \/ last.probe = "nothing")

\* C13: validating a candidate writes nothing to storage; a rejected candidate
\* is not kept for the schedule; every Performer row that a step adds has the
\* name and the romanization of a candidate that was kept as a new performer
\* of the entry being persisted; and no PerformerSocialLink row is written.
C13_RejectedNeverWritten ==
    [][/\ ValidateStep => db' = db
       /\ (ValidateStep /\ Rejected(run'.last)) => run'.valid = run.valid
       /\ db'.social_links = db.social_links
       /\ \A p \in db'.performers \ db.performers :
             /\ PersistStep
             /\ \E i \in 1..Len(run.valid) :
                   /\ run.valid[i].pk = 0
                   /\ run.valid[i].name = p.name
                   /\ run.valid[i].name_romaji = p.name_romaji]_vars

\* A schedule was created for an entry whose last candidate was a new name
\* that the probe rejected: an accepted performer is stored, no stored
\* performer has the rejected name and no social link is stored.
C13_Witness ==
    /\ run.last.outcome = "created"
    /\ run.last.probe = "nothing"
    /\ run.last.name # ""
    /\ db.performers # {}
    /\ ~\E p \in db.performers : p.name = run.last.name
    /\ db.social_links = {}

\* The element of valid_performers that stands for the stored row p.
Reused(p) == [pk |-> p.id, name |-> p.name, name_romaji |-> p.name_romaji]

\* C14: a candidate whose cleaned name is the name of a stored Performer is
\* kept as that stored row without the probe being run and without a write;
\* persisting the entry leaves every stored Performer row as it was, links
\* the reused rows to the schedule, and adds no Performer row when every
\* kept candidate is a reused one.
C14_ReusePath ==
    [][/\ ValidateStep
            => \A p \in db.performers :
                  p.name = run'.last.name
                     => /\ run'.last.probe = "not_run"
                        /\ run'.valid = Append(run.valid, Reused(p))
                        /\ db' = db
       /\ (PersistStep /\ run.valid # <<>>)
            => /\ db.performers \subseteq db'.performers
               /\ \A i \in 1..Len(run.valid) :
                     run.valid[i].pk # 0
                        => \E s \in db'.schedules :
                              s.id = run'.last.id /\ run.valid[i].pk \in s.performers
               /\ (\A i \in 1..Len(run.valid) : run.valid[i].pk # 0)
                     => db'.performers = db.performers]_vars

\* An entry whose only kept candidate was a stored performer, taken without a
\* probe, has been persisted: the stored row is linked to the schedule.
C14_Witness ==
    /\ run.last.outcome \in {"created", "existing"}
    /\ run.last.probe = "not_run"
    /\ run.last.kept
    /\ Len(run.last.valid) = 1
    /\ \E p \in db.performers :
          /\ run.last.valid[1] = Reused(p)
          /\ \E s \in db.schedules : s.id = run.last.id /\ p.id \in s.performers

\* The stored performers that the kept candidates of an entry stand for: the
\* reused rows, and the rows with the romanization of the new ones.
LinkedBy(valid, performers) ==
    {p.id : p \in {q \in performers :
                      \E i \in 1..Len(valid) :
                         \/ valid[i].pk = q.id
                         \/ valid[i].pk = 0 /\ valid[i].name_romaji = q.name_romaji}}

\* The performers that the stored schedule sid has.
PerformersOf(schedules, sid) == UNION {s.performers : s \in {r \in schedules : r.id = sid}}

LiveHouseStep == run.pc = "live_house" /\ run'.pc = "find_link"

\* C16: no website ever has two LiveHouse rows; right after a call of
\* create_or_update_live_house the website has exactly one row, which carries
\* the data of the call; when the website had a row, it is that row (same id)
\* with its data changed and nothing else; rows of other websites are left
\* alone; and a run that returns leaves the website with exactly one row.
C16_VenueUpsert ==
    [][/\ \A w \in Websites : Cardinality(LiveHousesOf(db', w)) <= 1
       /\ LiveHouseStep
            => /\ \E r \in db'.live_houses :
                     /\ LiveHousesOf(db', run.website) = {r}
                     /\ r.id = run'.live_house
                     /\ r.name = run'.data
                     /\ \A o \in LiveHousesOf(db, run.website) : r = [o EXCEPT !.name = r.name]
               /\ \A o \in db.live_houses : o.website # run.website => o \in db'.live_houses
               /\ Cardinality(db'.live_houses) <= Cardinality(db.live_houses) + 1
       /\ run'.pc = "returned" => Cardinality(LiveHousesOf(db', run'.website)) = 1]_vars

\* A later call has just met the row that an earlier run stored under another
\* name: the website still has one row, with the id it had and the new name.
C16_Witness ==
    /\ run.pc = "find_link"
    /\ \E o \in snap.live_houses : \E r \in db.live_houses :
          /\ o.website = run.website
          /\ LiveHousesOf(db, run.website) = {r}
          /\ r.id = o.id
          /\ r.name = run.data
          /\ r.name # o.name

\* C17: a call of run_crawler for a website whose crawler_class is not
\* registered raises ValueError naming that crawler_class as its only step: no
\* crawler is constructed, run is not entered, and storage is as it was; and
\* run_crawler raises this way for no other website.
C17_RegistryFailsFast ==
    [][(run.pc = "idle" /\ run'.pc # "idle")
          => IF crawler_class[run'.website] \in RegisteredCrawlers
                THEN run'.at # "registry" /\ run'.msg = ""
                ELSE /\ run'.pc = "raised"
                     /\ run'.at = "registry"
                     /\ run'.exc = ExcValueError
                     /\ run'.msg = crawler_class[run'.website]
                     /\ runs' = runs
                     /\ db' = db
                     /\ snap' = snap]_vars

\* run_crawler has raised for a website whose crawler_class names a crawler
\* that is not registered, after an earlier run has stored rows.
C17_Witness ==
    /\ run.pc = "raised"
    /\ run.at = "registry"
    /\ run.msg = "NonExistentCrawler"
    /\ db.website_state[run.website] = NOT_STARTED
    /\ db.live_houses # {}

\* C18: when find_schedule_link finds no link, run goes straight to its end;
\* from there it has fetched no schedule page and written no schedule, and it
\* returns with the schedules as they were, the venue row of the website
\* stored with the data of this run and the outcome SUCCESS of today, and the
\* website COMPLETED.
C18_NoScheduleLink ==
    [][/\ (run.pc = "find_link" /\ run'.link = "none")
            => /\ run'.pc = "finish"
               /\ db' = db
       /\ run.pc = "finish"
            => /\ run.link = "none"
               /\ run.listed = <<>>
               /\ db.schedules = snap.schedules
               /\ run'.pc = "returned"
               /\ db'.schedules = db.schedules
               /\ db'.website_state[run.website] = COMPLETED
               /\ \E r \in db'.live_houses :
                     /\ LiveHousesOf(db', run.website) = {r}
                     /\ r.id = run.live_house
                     /\ r.name = run.data
                     /\ r.last_collection_state = SUCCESS
                     /\ r.last_collected = today]_vars

\* A run that found no schedule link has returned: the website is COMPLETED,
\* its venue row has the outcome SUCCESS and no schedule is stored.
C18_Witness ==
    /\ run.pc = "returned"
    /\ run.link = "none"
    /\ db.website_state[run.website] = COMPLETED
    /\ \E r \in LiveHousesOf(db, run.website) : r.last_collection_state = SUCCESS
    /\ db.schedules = {}

\* The number of entries that the schedule pages fetched so far have yielded.
RECURSIVE Total(_)
Total(listed) == IF listed = <<>> THEN 0 ELSE Head(listed) + Total(Tail(listed))

\* The number of schedule rows written since the run began.
RowsAdded == Cardinality(db.schedules) - Cardinality(snap.schedules)

C20_TicketInfoNeverEmpty ==
    [][/\ \A t \in db'.tickets :
             /\ t.fields # {}
             /\ \E s \in db'.schedules : s.id = t.performance
       /\ (PersistStep /\ run'.last.context \in {"none", "plain"})
            => db'.tickets = db.tickets
       /\ db'.tickets # db.tickets
            => \/ run'.pc = "raised" /\ db'.tickets = snap.tickets
               \/ /\ PersistStep
                  /\ run'.last.outcome \in {"created", "existing"}
                  /\ run'.last.context = "price"
                  /\ \E t \in db'.tickets :
                        /\ t.performance = run'.last.id
                        /\ "ticket_price" \in t.fields
                        /\ db'.tickets \ db.tickets = {t}]_vars

\* An entry whose context text holds no ticket data has been persisted on the
\* schedule of an earlier entry that has a ticket row: the row is as it was.
C20_Witness ==
    /\ run.last.outcome = "existing"
    /\ run.last.context = "plain"
    /\ \E t \in db.tickets : t.performance = run.last.id /\ t.fields = {"ticket_price"}

\* ------------------------------------------ extract_performance_schedules: dates
\* The crawlers whose extraction reads month/day-only tokens: the generic
\* extraction of the base class, Loft Project Shelter and Malcolm.
DateCrawlers == {"LiveHouseWebsiteCrawler", "LoftProjectShelterCrawler", "MalcolmCrawler"}

\* The years and the months of the reference date (datetime.now()) and the
\* months of the tokens.
ReferenceYears == {2024, 2025, 2026}

Months == 1..12

\* `current_year = 2025  # Default year` of the generic extraction.
DefaultYear == 2025

\* The year that the extraction of the crawler gives a month/day-only token:
\* Loft Project Shelter and Malcolm take the year of the reference date and
\* add one when the month of the token is less than the month of the
\* reference date; the generic extraction takes its default year.
ResolveYear(crawler, ref_year, ref_month, month) ==
    IF crawler = "LiveHouseWebsiteCrawler" THEN DefaultYear
    ELSE IF month < ref_month THEN ref_year + 1 ELSE ref_year

\* All the crawl variables at rest, with every website on the base crawler.
CrawlAtRest ==
    /\ crawler_class = [w \in Websites |-> "LiveHouseWebsiteCrawler"]
    /\ db = [website_state |-> [w \in Websites |-> NOT_STARTED],
             live_houses |-> {}, schedules |-> {}, performers |-> {},
             tickets |-> {}, social_links |-> {}]
    /\ snap = db
    /\ today = 1
    /\ runs = 0
    /\ run = IdleRun
    /\ batch = IdleBatch
    /\ batch_outcome = [w \in Websites |-> "none"]

crawl_vars == <<crawler_class, db, snap, today, runs, run, batch, batch_outcome>>

\* A page with a month/day-only token is about to be extracted by a crawler
\* at a reference date.
InitDates ==
    /\ CrawlAtRest
    /\ playlist = NoPlaylist
    /\ procs = NoProcs
    /\ calc \in [op : {"date"}, crawler : DateCrawlers, ref_year : ReferenceYears,
                  ref_month : Months, month : Months, year : {0}]

\* extract_performance_schedules resolves the date of the token.
ExtractDate ==
    /\ calc.op = "date"
    /\ calc.year = 0
    /\ calc' = [calc EXCEPT !.year = ResolveYear(calc.crawler, calc.ref_year,
                                                  calc.ref_month, calc.month)]
    /\ UNCHANGED <<crawl_vars, playlist, procs>>

NextDates == ExtractDate

SpecDates == InitDates /\ [][NextDates]_vars

\* C21 as stated: the year of a month/day-only token is the year after the
\* reference year when the month of the token is less than the month of the
\* reference date, and the reference year otherwise, whatever the crawler.
C21_YearRollover ==
    (calc.op = "date" /\ calc.year # 0)
        => calc.year = IF calc.month < calc.ref_month THEN calc.ref_year + 1
                       ELSE calc.ref_year

\* -------------------------------------------------------- _clean_performer_name
\* The pieces of the text of a name: a letter, a blank, a yen sign, a digit
\* and the drink-charge mark "+1D".
NameTokens == {"a", " ", "Y", "5", "+1D"}

\* The first position from i on where s has another piece than t.
RECURSIVE SkipWhile(_, _, _)
SkipWhile(s, i, t) ==
    IF i <= Len(s) /\ s[i] = t THEN SkipWhile(s, i + 1, t) ELSE i

\* str.strip(): the blanks at both ends are removed.
RECURSIVE Strip(_)
Strip(s) ==
    IF s = <<>> THEN s
    ELSE IF Head(s) = " " THEN Strip(Tail(s))
    ELSE IF s[Len(s)] = " " THEN Strip(SubSeq(s, 1, Len(s) - 1))
    ELSE s

\* re.sub(r"[¥￥]\s*\d+[,\d]*", "", name): a yen sign, any blanks and the
\* digits that follow are removed, from left to right.
RECURSIVE RemovePricing(_)
RemovePricing(s) ==
    IF s = <<>> THEN s
    ELSE LET j == SkipWhile(s, 2, " ")
             k == SkipWhile(s, j, "5")
         IN IF Head(s) = "Y" /\ k > j
               THEN RemovePricing(SubSeq(s, k, Len(s)))
               ELSE <<Head(s)>> \o RemovePricing(Tail(s))

\* re.sub(r"\+1D", "", name)
RemoveDrinkCharge(s) == SelectSeq(s, LAMBDA t : t # "+1D")

\* re.sub(r"\s+", " ", name): a run of blanks becomes one blank.
RECURSIVE CollapseBlanks(_)
CollapseBlanks(s) ==
    IF Len(s) < 2 THEN s
    ELSE IF s[1] = " " /\ s[2] = " " THEN CollapseBlanks(Tail(s))
    ELSE <<Head(s)>> \o CollapseBlanks(Tail(s))

\* _clean_performer_name on the text of a name, its substitutions in the order
\* of the code: strip, pricing, drink charge, blanks, strip of the edge
\* characters (of which the text has the blank only), strip.
CleanPerformerNameText(s) ==
    IF s = <<>> THEN s
    ELSE Strip(Strip(CollapseBlanks(RemoveDrinkCharge(RemovePricing(Strip(s))))))

\* The texts of at most n pieces.
RECURSIVE Texts(_)
Texts(n) ==
    IF n = 0 THEN {<<>>}
    ELSE LET shorter == Texts(n - 1)
         IN shorter \cup {Append(s, t) : s \in shorter, t \in NameTokens}

\* A text is about to be cleaned.
InitClean ==
    /\ CrawlAtRest
    /\ playlist = NoPlaylist
    /\ procs = NoProcs
    /\ calc \in [op : {"clean"}, x : Texts(MaxLen), done : {FALSE},
                  once : {<<>>}, twice : {<<>>}]

\* The text is cleaned, and what comes out is cleaned again.
CleanName ==
    /\ calc.op = "clean"
    /\ ~calc.done
    /\ calc' = [calc EXCEPT !.done = TRUE,
                            !.once = CleanPerformerNameText(calc.x),
                            !.twice = CleanPerformerNameText(CleanPerformerNameText(calc.x))]
    /\ UNCHANGED <<crawl_vars, playlist, procs>>

NextClean == CleanName

SpecClean == InitClean /\ [][NextClean]_vars

\* C22 as stated: cleaning a cleaned name gives the cleaned name.
C22_CleanIdempotent ==
    (calc.op = "clean" /\ calc.done) => calc.twice = calc.once

\* C23 as stated: once an entry is persisted whose last candidate was a new
\* one that the gate accepted and that is now stored under its name, every
\* link that its probe found is stored as a link of that performer.
C23_LinksStoredOnAcceptance ==
    (/\ run.last.outcome \in {"created", "existing"}
     /\ run.last.probe # "not_run"
     /\ run.last.kept)
        => \A p \in db.performers :
              p.name = run.last.name
                 => \A l \in run.last.links :
                       [performer |-> p.id, platform |-> l] \in db.social_links

\* C24 as stated: an outbound call that fails ends the run; once the search
\* probe of a candidate has raised an error of its own, the run is not going
\* on with its entries but has raised.
C24_FailOnFirstError ==
    (run.last.outcome = "validated" /\ run.last.probe = "error")
        => run.pc = "raised"

\* C28 as stated: in committed storage every schedule has at least one
\* performer.
C28_ScheduleHasPerformer ==
    \A s \in snap.schedules : s.performers # {}

\* C29: while entries remain the run stays in the loop and every step takes
\* at most one entry off; an entry that is refused for want of valid
\* performers or whose persisting raised is counted as failed and the next
\* entry is at hand; the loop is left only with no entry remaining, and then
\* the website is stored COMPLETED and the venue's outcome SUCCESS.
C29_EntryFailureIsLocal ==
    [][/\ (run.pc = "entries" /\ run.remaining > 0)
            => /\ run'.pc = "entries"
               /\ run'.remaining \in {run.remaining, run.remaining - 1}
       /\ (PersistStep /\ run'.last.outcome \in {"no_performers", "error"})
            => /\ run'.remaining = run.remaining - 1
               /\ run'.dropped = run.dropped + 1
               /\ run'.created_count = run.created_count
               /\ run'.exc = "none"
       /\ (run.pc = "entries" /\ run'.pc # "entries")
            => /\ run'.pc = "returned"
               /\ db'.website_state[run.website] = COMPLETED
               /\ \A r \in db'.live_houses :
                     r.id = run.live_house => r.last_collection_state = SUCCESS
               /\ snap' = db']_vars

\* The loop is over for a run of two entries: persisting the first one raised
\* after its schedule row was created (the row is not in committed storage
\* yet), and the second one was still processed and put its performer on it.
C29_Witness ==
    /\ run.pc = "entries"
    /\ run.remaining = 0
    /\ run.listed = <<1, 1>>
    /\ run.dropped = 1
    /\ run.created_count = 1
    /\ run.last.outcome = "existing"
    /\ ~\E s \in snap.schedules : s.id = run.last.id
    /\ \E s \in db.schedules : s.id = run.last.id /\ s.performers # {}

\* C27: no step of a run in progress changes committed storage, and when the
\* run raises, the stored venues, schedules, performers and ticket rows are
\* those of committed storage as it was when the run was entered.
C27_FailedRunIsAtomic ==
    [][/\ (run.pc \notin {"idle", "returned", "raised"}
             /\ run'.pc \notin {"returned", "raised"})
            => snap' = snap
       /\ (run.pc # "raised" /\ run'.pc = "raised")
            => /\ db'.live_houses = snap.live_houses
               /\ db'.schedules = snap.schedules
               /\ db'.performers = snap.performers
               /\ db'.tickets = snap.tickets]_vars

\* A run has raised at the fetch of the schedule page, after it had created
\* the venue of its website: no venue of that website is stored.
C27_Witness ==
    /\ run.pc = "raised"
    /\ run.at = "fetch_schedule"
    /\ run.live_house # 0
    /\ LiveHousesOf(db, run.website) = {}

\* ------------------------------------------------- fix_playlist_positions
\* The entries of one playlist are numbered 1..n; a row is the position and
\* the spotlight flag of an entry.  Stored positions are pairwise different
\* (unique_together of playlist and position).
TempBase == 1000

Positions == {1, 2, 3, 5, TempBase + 1, TempBase + 2}

PlaylistRows(n) ==
    {r \in [1..n -> [position : Positions, is_spotlight : BOOLEAN]] :
        \A a, b \in 1..n : a # b => r[a].position # r[b].position}

\* list.sort(key=lambda x: x.position) of the entries in ids.
RECURSIVE SortByPosition(_, _)
SortByPosition(rows, ids) ==
    IF ids = {} THEN <<>>
    ELSE LET first == CHOOSE a \in ids :
                         \A b \in ids : rows[a].position <= rows[b].position
         IN <<first>> \o SortByPosition(rows, ids \ {first})

\* OrderedEntries without the separation of the spotlight entries.
OrderedEntries_ByPositionOnly(rows) == SortByPosition(rows, DOMAIN rows)

\* regular_entries + spotlight_entries, each sorted by its current position.
OrderedEntries(rows) ==
    SortByPosition(rows, {a \in DOMAIN rows : ~rows[a].is_spotlight})
        \o SortByPosition(rows, {a \in DOMAIN rows : rows[a].is_spotlight})

\* `changes_needed`: some entry is not at the position of its index.
ChangesNeeded(rows, ordered) ==
    \E i \in 1..Len(ordered) : rows[ordered[i]].position # i

\* objects.filter(pk=entry.pk).update(position=p): the statement fails with
\* IntegrityError when another entry of the playlist is at position p.
PositionTaken(rows, a, p) == \E b \in DOMAIN rows : b # a /\ rows[b].position = p

InitPositions ==
    /\ CrawlAtRest
    /\ calc = NoCalc
    /\ procs = NoProcs
    /\ \E n \in 0..MaxPlaylistEntries : \E r \in PlaylistRows(n) :
          \E dry \in BOOLEAN :
             playlist = [pc |-> "start", dry_run |-> dry, rows |-> r,
                         committed |-> r, before |-> r, ordered |-> <<>>, idx |-> 0]

\* handle, for one playlist, up to `with transaction.atomic()`.
FixStart ==
    /\ playlist.pc = "start"
    /\ LET ordered == OrderedEntries(playlist.rows) IN
       playlist' = [playlist EXCEPT
          !.ordered = ordered,
          !.idx = 1,
          !.pc = IF ordered = <<>> THEN "no_entries"
                 ELSE IF ~ChangesNeeded(playlist.rows, ordered) THEN "no_changes"
                 ELSE IF playlist.dry_run THEN "dry_run"
                 ELSE "temp"]
    /\ UNCHANGED <<crawl_vars, calc, procs>>

\* One statement of the first loop: the entry goes to TempBase + idx.  An
\* IntegrityError leaves the atomic block, which is rolled back.
FixTemp ==
    /\ playlist.pc = "temp"
    /\ LET a == playlist.ordered[playlist.idx]
           p == TempBase + playlist.idx
       IN IF PositionTaken(playlist.rows, a, p)
             THEN playlist' = [playlist EXCEPT !.pc = "raised",
                                               !.rows = playlist.committed]
             ELSE playlist' = [playlist EXCEPT
                     !.rows[a].position = p,
                     !.idx = IF playlist.idx = Len(playlist.ordered) THEN 1 ELSE @ + 1,
                     !.pc = IF playlist.idx = Len(playlist.ordered) THEN "final"
                            ELSE "temp"]
    /\ UNCHANGED <<crawl_vars, calc, procs>>

\* One statement of the second loop: the entry goes to idx; after the last
\* one the atomic block is left and its writes are committed.
FixFinal ==
    /\ playlist.pc = "final"
    /\ LET a == playlist.ordered[playlist.idx]
           p == playlist.idx
       IN IF PositionTaken(playlist.rows, a, p)
             THEN playlist' = [playlist EXCEPT !.pc = "raised",
                                               !.rows = playlist.committed]
             ELSE LET rows == [playlist.rows EXCEPT ![a].position = p]
                      last == playlist.idx = Len(playlist.ordered)
                  IN playlist' = [playlist EXCEPT
                        !.rows = rows,
                        !.committed = IF last THEN rows ELSE @,
                        !.idx = IF last THEN @ ELSE @ + 1,
                        !.pc = IF last THEN "fixed" ELSE "final"]
    /\ UNCHANGED <<crawl_vars, calc, procs>>

NextPositions == FixStart \/ FixTemp \/ FixFinal

SpecPositions == InitPositions /\ [][NextPositions]_vars

\* The command is through with the playlist, not as a dry run.
Processed ==
    playlist.pc \in {"no_entries", "no_changes", "fixed"} /\ ~playlist.dry_run

\* C25: in committed storage no two entries of the playlist share a position
\* at any time; once the command, not in dry-run mode, is through with the
\* playlist, the committed positions are exactly 1..n, every entry that is not
\* a spotlight is before every spotlight entry, and two entries of the same
\* group are in the order of their positions before the command.
C25_PositionsFixed ==
    playlist.pc # "none" =>
       LET c == playlist.committed
           b == playlist.before
           n == Len(c)
       IN /\ \A x, y \in 1..n : x # y => c[x].position # c[y].position
          /\ Processed =>
                /\ {c[x].position : x \in 1..n} = 1..n
                /\ \A x, y \in 1..n :
                      (~c[x].is_spotlight /\ c[y].is_spotlight)
                         => c[x].position < c[y].position
                /\ \A x, y \in 1..n :
                      (c[x].is_spotlight = c[y].is_spotlight
                         /\ b[x].position < b[y].position)
                         => c[x].position < c[y].position
                /\ \A x \in 1..n : c[x].is_spotlight = b[x].is_spotlight

\* The command has fixed a playlist of three entries whose spotlight entry
\* was first and whose other two entries were at positions 3 and 5.
C25_Witness ==
    /\ playlist.pc = "fixed"
    /\ Len(playlist.before) = 3
    /\ \E s, x, y \in 1..3 :
          /\ playlist.before[s].is_spotlight /\ playlist.before[s].position = 1
          /\ ~playlist.before[x].is_spotlight /\ playlist.before[x].position = 3
          /\ ~playlist.before[y].is_spotlight /\ playlist.before[y].position = 5
          /\ playlist.committed[x].position = 1
          /\ playlist.committed[y].position = 2
          /\ playlist.committed[s].position = 3

\* ------------------------------------------------- create_monthly_playlist
\* The performers are numbered in the order of their names; each has a
\* playlist_weight, and the eligible ones (a song with a YouTube video of its
\* own and a performance in the target month) are a subset of them.
TOP_PERFORMERS_COUNT == 5

PlaylistPerformers == 1..MaxPerformers

PlaylistWeights == {0, 1}

\* order_by("-playlist_weight", "name") of the performers in ids.
RECURSIVE OrderByWeight(_, _)
OrderByWeight(weights, ids) ==
    IF ids = {} THEN <<>>
    ELSE LET first == CHOOSE a \in ids : \A b \in ids :
                         \/ weights[a] > weights[b]
                         \/ weights[a] = weights[b] /\ a <= b
         IN <<first>> \o OrderByWeight(weights, ids \ {first})

\* The loop over eligible_performers, left when TOP_PERFORMERS_COUNT songs
\* are selected.
SelectedSongs(weights, eligible) ==
    LET ordered == OrderByWeight(weights, eligible)
    IN SubSeq(ordered, 1, IF Len(ordered) < TOP_PERFORMERS_COUNT THEN Len(ordered)
                          ELSE TOP_PERFORMERS_COUNT)

\* The loop over selected_songs: the songs whose add_video_to_playlist
\* succeeded, in order.
RECURSIVE AddedSongs(_, _)
AddedSongs(selected, failed) ==
    IF selected = <<>> THEN <<>>
    ELSE (IF Head(selected) \in failed THEN <<>> ELSE <<Head(selected)>>)
            \o AddedSongs(Tail(selected), failed)

\* UpdateWeights without the increment of the other performers.
UpdateWeights_ResetOnly(weights, added) ==
    [p \in DOMAIN weights |-> IF p \in Range(added) THEN 0 ELSE weights[p]]

\* The two updates of playlist_weight: 0 for the performers of added_songs,
\* F("playlist_weight") + 1 for every other performer.
UpdateWeights(weights, added) ==
    [p \in DOMAIN weights |-> IF p \in Range(added) THEN 0 ELSE weights[p] + 1]

InitCreate ==
    /\ CrawlAtRest
    /\ calc = NoCalc
    /\ procs = NoProcs
    /\ \E w \in [PlaylistPerformers -> PlaylistWeights] :
          \E el \in SUBSET PlaylistPerformers : \E stored \in BOOLEAN :
             playlist = [pc |-> "check", weights |-> w, before |-> w, eligible |-> el,
                         stored |-> stored, created |-> FALSE, entries |-> <<>>,
                         selected |-> <<>>, added |-> <<>>]

\* handle up to the dry-run return: the playlist of the month is stored
\* already, the secrets file is missing, nobody is eligible, or the songs are
\* selected.
CreateSelect(secrets, dry_run) ==
    /\ playlist.pc = "check"
    /\ LET selected == SelectedSongs(playlist.weights, playlist.eligible) IN
       playlist' =
          IF playlist.stored THEN [playlist EXCEPT !.pc = "exists"]
          ELSE IF ~secrets THEN [playlist EXCEPT !.pc = "no_secrets"]
          ELSE IF selected = <<>> THEN [playlist EXCEPT !.pc = "no_performers"]
          ELSE IF dry_run THEN [playlist EXCEPT !.pc = "dry_run", !.selected = selected]
          ELSE [playlist EXCEPT !.pc = "youtube", !.selected = selected]
    /\ UNCHANGED <<crawl_vars, calc, procs>>

\* create_youtube_playlist: an exception is reported and handle returns.
CreateYoutubePlaylist(result) ==
    /\ playlist.pc = "youtube"
    /\ playlist' = [playlist EXCEPT !.pc = IF result = "ok" THEN "adding"
                                           ELSE "youtube_failed"]
    /\ UNCHANGED <<crawl_vars, calc, procs>>

\* The loop of add_video_to_playlist; with no song added handle returns.
AddVideos(failed) ==
    /\ playlist.pc = "adding"
    /\ LET added == AddedSongs(playlist.selected, failed) IN
       playlist' = [playlist EXCEPT !.added = added,
                                    !.pc = IF added = <<>> THEN "none_added"
                                           ELSE "write"]
    /\ UNCHANGED <<crawl_vars, calc, procs>>

\* The atomic block: the MonthlyPlaylist row, one MonthlyPlaylistEntry per
\* added song at positions 1.., and the two updates of playlist_weight.
WriteRecords ==
    /\ playlist.pc = "write"
    /\ playlist' = [playlist EXCEPT
          !.pc = "created",
          !.created = TRUE,
          !.entries = playlist.added,
          !.weights = UpdateWeights(playlist.weights, playlist.added)]
    /\ UNCHANGED <<crawl_vars, calc, procs>>

\* At most one of the selected songs fails to be added, or all of them do.
FailedVideos ==
    {{}} \cup {{p} : p \in Range(playlist.selected)} \cup {Range(playlist.selected)}

NextCreate ==
    \/ \E secrets, dry_run \in BOOLEAN : CreateSelect(secrets, dry_run)
    \/ \E result \in {"ok", "error"} : CreateYoutubePlaylist(result)
    \/ \E failed \in FailedVideos : AddVideos(failed)
    \/ WriteRecords

SpecCreate == InitCreate /\ [][NextCreate]_vars

\* The command has stopped before its atomic block.
StoppedEarly ==
    playlist.pc \in {"exists", "no_secrets", "no_performers", "dry_run",
                     "youtube_failed", "none_added"}

\* The selected performers are the first ones, at most TOP_PERFORMERS_COUNT, of
\* the eligible performers by weight before the command (name breaks ties).
SelectedAreTop ==
    /\ Len(playlist.selected) <= TOP_PERFORMERS_COUNT
    /\ Range(playlist.selected) \subseteq playlist.eligible
    /\ Len(playlist.selected) < TOP_PERFORMERS_COUNT
          => Range(playlist.selected) = playlist.eligible
    /\ \A p \in Range(playlist.selected) :
          \A q \in playlist.eligible \ Range(playlist.selected) :
             \/ playlist.before[p] > playlist.before[q]
             \/ playlist.before[p] = playlist.before[q] /\ p < q

Processes == {1, 2}

IdleProc == [pc |-> "idle", queue |-> <<>>, selected |-> {}, ran |-> <<>>,
             current |-> 0, success_count |-> 0, failed_count |-> 0]

\* The websites whose run_crawler call is under way in a process other than i.
BusyElsewhere(i) ==
    {procs[j].current : j \in {k \in Processes : k # i /\ procs[k].pc \in {"run", "crawl"}}}

\* ProcSelect that leaves out the websites another batch run is crawling.
ProcSelect_SkipBusy(d, day, busy) ==
    LET websites == WebsitesWithCrawler(d, 0)
    IN (websites \ WebsitesToExclude(d, websites, day)) \ busy

\* collect_schedules() up to its loop: the websites with a crawler, less those
\* with a venue collected today with outcome SUCCESS.  Neither the state of a
\* website nor what another batch run is doing is looked at.
ProcSelect(d, day, busy) ==
    LET websites == WebsitesWithCrawler(d, 0)
    IN websites \ WebsitesToExclude(d, websites, day)

\* Another process has an open transaction that wrote the row of website w.
RowHeldElsewhere(i, w) ==
    \E j \in Processes : j # i /\ procs[j].pc = "crawl" /\ procs[j].current = w

\* Another process has an open transaction.
WriterElsewhere(i) == \E j \in Processes : j # i /\ procs[j].pc = "crawl"

InitOverlap ==
    /\ CrawlAtRest
    /\ calc = NoCalc
    /\ playlist = NoPlaylist
    /\ procs = [i \in Processes |-> IdleProc]

ProcStart(i, order) ==
    /\ procs[i].pc = "idle"
    /\ LET selected == ProcSelect(db, today, BusyElsewhere(i))
       IN /\ order \in Orders(selected)
          /\ procs' = [procs EXCEPT ![i] = [IdleProc EXCEPT !.pc = "loop",
                                                           !.queue = order,
                                                           !.selected = selected]]
    /\ UNCHANGED <<crawl_vars, calc, playlist>>

\* One iteration of the loop, up to run()'s `with transaction.atomic()`.
ProcRunCrawler(i) ==
    /\ procs[i].pc = "loop"
    /\ procs[i].queue # <<>>
    /\ procs' = [procs EXCEPT ![i].pc = "run",
                              ![i].current = Head(procs[i].queue),
                              ![i].queue = Tail(@),
                              ![i].ran = Append(@, Head(procs[i].queue))]
    /\ UNCHANGED <<crawl_vars, calc, playlist>>

\* website.save() with state IN_PROGRESS, inside the transaction: the
\* statement waits while another transaction holds the row.
ProcSaveInProgress(i) ==
    /\ procs[i].pc = "run"
    /\ ~RowHeldElsewhere(i, procs[i].current)
    /\ procs' = [procs EXCEPT ![i].pc = "crawl"]
    /\ UNCHANGED <<crawl_vars, calc, playlist>>

\* ... or the database gives up waiting for the other writer and the save
\* raises: the run raises into the loop's except clause.
ProcLockTimeout(i) ==
    /\ procs[i].pc = "run"
    /\ WriterElsewhere(i)
    /\ procs' = [procs EXCEPT ![i].pc = "fallback", ![i].failed_count = @ + 1]
    /\ UNCHANGED <<crawl_vars, calc, playlist>>

\* The rest of run(): on success the venue is stored with outcome SUCCESS and
\* the website COMPLETED, and the transaction commits; on an exception the
\* transaction is rolled back and the exception reaches the loop.
ProcFinishRun(i, result) ==
    /\ procs[i].pc = "crawl"
    /\ LET w == procs[i].current
           u == UpdateOrCreateLiveHouse(db, w, VenueData(w, "v1"))
       IN IF result = "ok" /\ u.ok
             THEN /\ db' = AtomicExitNormally(
                              SaveWebsiteState(
                                 SaveLiveHouseOutcome(u.db, u.id, SUCCESS, today),
                                 w, COMPLETED), db)
                  /\ procs' = [procs EXCEPT ![i].pc = "loop", ![i].current = 0,
                                            ![i].success_count = @ + 1]
             ELSE /\ db' = AtomicExitOnException(
                              ExceptClause(u.db, w, u.id, ExcOther), db)
                  /\ procs' = [procs EXCEPT ![i].pc = "fallback",
                                            ![i].failed_count = @ + 1]
    /\ snap' = db'
    /\ UNCHANGED <<crawler_class, today, runs, run, batch, batch_outcome, calc, playlist>>

\* The except clause of the loop saves the website as FAILED, outside any
\* transaction; the statement waits while another transaction holds the row.
ProcFallbackSave(i) ==
    /\ procs[i].pc = "fallback"
    /\ ~RowHeldElsewhere(i, procs[i].current)
    /\ db' = SaveWebsiteState(db, procs[i].current, FAILED)
    /\ snap' = db'
    /\ procs' = [procs EXCEPT ![i].pc = "loop", ![i].current = 0]
    /\ UNCHANGED <<crawler_class, today, runs, run, batch, batch_outcome, calc, playlist>>

\* ... or it raises as well, and the exception leaves collect_schedules.
ProcFallbackTimeout(i) ==
    /\ procs[i].pc = "fallback"
    /\ WriterElsewhere(i)
    /\ procs' = [procs EXCEPT ![i].pc = "aborted"]
    /\ UNCHANGED <<crawl_vars, calc, playlist>>

\* The loop is over.
ProcFinish(i) ==
    /\ procs[i].pc = "loop"
    /\ procs[i].queue = <<>>
    /\ procs' = [procs EXCEPT ![i].pc = "done"]
    /\ UNCHANGED <<crawl_vars, calc, playlist>>

NextOverlap ==
    \/ \E i \in Processes : \E order \in Orders(Websites) \cup Orders({1}) \cup Orders({2}) \cup {<<>>} :
          ProcStart(i, order)
    \/ \E i \in Processes : ProcRunCrawler(i)
    \/ \E i \in Processes : ProcSaveInProgress(i)
    \/ \E i \in Processes : ProcLockTimeout(i)
    \/ \E i \in Processes : \E result \in {"ok", "error"} : ProcFinishRun(i, result)
    \/ \E i \in Processes : ProcFallbackSave(i)
    \/ \E i \in Processes : ProcFallbackTimeout(i)
    \/ \E i \in Processes : ProcFinish(i)

SpecOverlap == InitOverlap /\ [][NextOverlap]_vars

====
